---- MODULE Spec2Model ----
(***************************************************************************)
(* Reply-generation pipeline of the support chat backend:                  *)
(*   - ChatService  (server/src/services/chat.service.ts)                  *)
(*   - GeminiService (server/src/services/gemini.service.ts)               *)
(*   - RateLimiter  (server/src/middleware/rateLimiter.ts)                 *)
(*   - POST /api/chat/message with its rate-limit middleware              *)
(* The store is the Prisma schema of the README (Conversation.sessionId is *)
(* @unique).  Each request is one cooperative task; an action is the code  *)
(* that runs between two suspension points.                                *)
(***************************************************************************)
EXTENDS Integers, Sequences, FiniteSets, TLC

\* ---------------------------------------------------------------- bounds
NumRequests == 2
MaxRetriesBound == 3
MaxTime == 4
MaxCalls == 5
MaxMaxRequests == 2
MaxWindowMs == 2
MaxPosts == 3
MaxRouteTime == 2
MaxHistory == 3

\* ------------------------------------------------------ program constants
DefaultModel == "gemini-3-flash-preview"
CustomModel == "custom-model"
Delays == <<10000, 30000, 65000>>
DefaultDelay == 10000

ChatRateLimitConfig == [windowMs |-> 60000, maxRequests |-> 20]

Requests == 1..NumRequests
Sessions == {"s1", "s2"}
Texts == {"Hi"}
Replies == {"Hello"}
Keys == {"a", "b"}
Ips == {"10.0.0.1"}
\* Every key the rate-limit table may hold: the keys of direct calls, and
\* the keys the middleware derives from a request.
StoreKeys == Keys \cup Sessions \cup Ips \cup {"anonymous"}
None == [none |-> TRUE]

\* An upstream error object: its status (0 = no status field) and the
\* substrings of interest its message contains.
UpstreamErrors ==
  { [status |-> 429, msg |-> {"429"}],
    [status |-> 404, msg |-> {}],
    [status |-> 404, msg |-> {"quota"}],
    [status |-> 0,   msg |-> {}],
    [status |-> 500, msg |-> {"timed out"}] }

TimeoutError == [status |-> 0, msg |-> {"timed out"}]

VARIABLES
  conversations,  \* table Conversation: sequence of [id, sessionId]
  messages,       \* table Message, in creation order: [id, conversationId, role, text]
  modelName,      \* GeminiService.modelName
  maxRetries,     \* GeminiService.maxRetries
  pc,             \* position of each request's task
  sessionId,      \* argument of processMessage
  userMessage,    \* argument of processMessage
  conversation,   \* local of processMessage: [id, messages]
  history,        \* local of processMessage: formatted history
  attempt,        \* loop variable of generateReply
  sent,           \* per request: model each sendMessage call was issued against
  resps,          \* per request: upstream outcomes handled by generateReply
  sleeps,         \* per request: delays slept
  late,           \* per request: an abandoned call answered after its timeout
  genOut,         \* result of generateReply
  tx,             \* uncommitted writes of the request's transaction
  txRuns,         \* number of $transaction invocations of the request
  out,            \* outcome of processMessage
  store,          \* RateLimiter.store
  now,            \* Date.now()
  config,         \* RateLimitConfig passed to the limiter
  log,            \* isRateLimited calls made so far: [key, t, limited]
  req,            \* the last POST /message received: [r, body, ip]
  res,            \* per request: the response, [status, json, headers]
  got,            \* the last query and its result: getHistory [sessionId,
                  \* messages], getRemaining [key, remaining], getResetTime
  fetchPc,        \* position of the client's fetchWithRetry call
  fetchAttempt,   \* loop variable of fetchWithRetry (counted from 0)
  fetched,        \* outcomes of the fetch calls made so far
  fetchSleeps,    \* delays fetchWithRetry slept
  lastError,      \* local of fetchWithRetry: null, or an Error [message]
  fetchResult     \* what fetchWithRetry returned or threw

chatVars == <<conversations, messages, modelName, maxRetries, pc, sessionId,
              userMessage, conversation, history, attempt, sent, resps,
              sleeps, late, genOut, tx, txRuns, out>>
limiterVars == <<store, now, config, log>>
clientVars == <<fetchPc, fetchAttempt, fetched, fetchSleeps, lastError,
                fetchResult>>
routeVars == <<req, res, got, clientVars>>
vars == <<chatVars, limiterVars, routeVars>>

\* ------------------------------------------------------------ the store
\* A variant of the lookup that misses conversations without messages.
ConversationOfWithMessages(s) ==
  { i \in 1..Len(conversations) :
      /\ conversations[i].sessionId = s
      /\ \E j \in 1..Len(messages) :
           messages[j].conversationId = conversations[i].id }

ConversationOf(s) ==
  { i \in 1..Len(conversations) : conversations[i].sessionId = s }

\* A variant of the schema without @unique on sessionId.
NoUniqueConstraint(s) == FALSE

\* Conversation.sessionId is @unique: a second row for s is rejected.
UniqueViolation(s) == ConversationOf(s) # {}

\* A variant of the query with orderBy createdAt desc.
MessagesOfNewestFirst(msgs, cid) ==
  LET f[i \in 0..Len(msgs)] ==
        IF i = 0 THEN <<>>
        ELSE IF msgs[i].conversationId = cid THEN <<msgs[i]>> \o f[i - 1]
        ELSE f[i - 1]
  IN f[Len(msgs)]

RECURSIVE MessagesOf(_, _)
MessagesOf(msgs, cid) ==
  IF msgs = <<>> THEN <<>>
  ELSE IF msgs[1].conversationId = cid
       THEN <<msgs[1]>> \o MessagesOf(Tail(msgs), cid)
       ELSE MessagesOf(Tail(msgs), cid)

\* getHistory(s): the messages of the conversation of s, oldest first,
\* or the empty list when s has no conversation; nothing is created.
GetHistory(s) ==
  IF ConversationOf(s) = {} THEN <<>>
  ELSE LET cid == conversations[CHOOSE i \in ConversationOf(s) : TRUE].id
           rows == MessagesOf(messages, cid)
       IN [i \in 1..Len(rows) |->
             [id |-> rows[i].id, role |-> rows[i].role, text |-> rows[i].text]]

\* ------------------------------------------------------ GeminiService
\* A variant that passes the stored role on as it is.
FormatHistoryRoleKept(msgs) ==
  [i \in 1..Len(msgs) |->
     [role  |-> msgs[i].role,
      parts |-> <<[text |-> msgs[i].text]>>]]

FormatHistoryForGemini(msgs) ==
  [i \in 1..Len(msgs) |->
     [role  |-> IF msgs[i].role = "ai" THEN "model" ELSE msgs[i].role,
      parts |-> <<[text |-> msgs[i].text]>>]]

\* A variant that also retries a timed-out call.
IsRateLimitOrTimeout(e) ==
  e.status = 429 \/ "429" \in e.msg \/ "quota" \in e.msg \/ "timed out" \in e.msg

IsRateLimit(e) == e.status = 429 \/ "429" \in e.msg \/ "quota" \in e.msg

\* A variant that sleeps the base retryDelay before every retry.
DelayForBase(a) == DefaultDelay

DelayFor(a) == IF a <= Len(Delays) THEN Delays[a] ELSE DefaultDelay

\* A variant that falls back on every not-found, also on the default model.
CatchBranchAlwaysFallback(e, cur, a, maxR) ==
  IF e.status = 404 THEN "fallback"
  ELSE IF IsRateLimit(e) /\ a < maxR THEN "sleep"
  ELSE IF IsRateLimit(e) THEN "RATE_LIMIT_EXCEEDED"
  ELSE "AI_SERVICE_ERROR"

\* A variant that retries every failure the way it retries a rate limit.
CatchBranchRetriesAll(e, cur, a, maxR) ==
  IF e.status = 404 /\ cur # DefaultModel THEN "fallback"
  ELSE IF a < maxR THEN "sleep"
  ELSE IF IsRateLimit(e) THEN "RATE_LIMIT_EXCEEDED"
  ELSE IF e.status = 404 THEN "MODEL_NOT_FOUND"
  ELSE "AI_SERVICE_ERROR"

\* The branch the catch block of generateReply takes.
CatchBranch(e, cur, a, maxR) ==
  IF e.status = 404 /\ cur # DefaultModel THEN "fallback"
  ELSE IF IsRateLimit(e) /\ a < maxR THEN "sleep"
  ELSE IF IsRateLimit(e) THEN "RATE_LIMIT_EXCEEDED"
  ELSE IF e.status = 404 THEN "MODEL_NOT_FOUND"
  ELSE "AI_SERVICE_ERROR"

Err(code, detail) == [ok |-> FALSE, code |-> code, detail |-> detail]

\* The {role, text} projection processMessage hands to the formatter.
RoleAndText(msgs) ==
  [i \in 1..Len(msgs) |-> [role |-> msgs[i].role, text |-> msgs[i].text]]

ChatInit ==
  /\ conversations = <<>>
  /\ messages = <<>>
  /\ pc = [r \in Requests |-> "idle"]
  /\ sessionId = [r \in Requests |-> "s1"]
  /\ userMessage = [r \in Requests |-> "Hi"]
  /\ conversation = [r \in Requests |-> None]
  /\ history = [r \in Requests |-> <<>>]
  /\ attempt = [r \in Requests |-> 0]
  /\ sent = [r \in Requests |-> <<>>]
  /\ resps = [r \in Requests |-> <<>>]
  /\ sleeps = [r \in Requests |-> <<>>]
  /\ late = [r \in Requests |-> "none"]
  /\ genOut = [r \in Requests |-> None]
  /\ tx = [r \in Requests |-> <<>>]
  /\ txRuns = [r \in Requests |-> 0]
  /\ out = [r \in Requests |-> None]

LimiterInit ==
  /\ store = [k \in StoreKeys |-> None]
  /\ now = 0
  /\ log = <<>>

RouteInit ==
  /\ req = None
  /\ res = [r \in Requests |-> None]
  /\ got = None
  /\ fetchPc = "idle"
  /\ fetchAttempt = 0
  /\ fetched = <<>>
  /\ fetchSleeps = <<>>
  /\ lastError = None
  /\ fetchResult = None

\* The service as constructed: GEMINI_MODEL may name another model, and
\* maxRetries is a field the tests set.
Init ==
  /\ ChatInit
  /\ modelName \in {DefaultModel, CustomModel}
  /\ maxRetries \in 1..MaxRetriesBound
  /\ LimiterInit
  /\ config = ChatRateLimitConfig
  /\ RouteInit

\* ------------------------------------------------- ChatService.processMessage
\* processMessage is called: findUnique is issued.
Begin(r, s, t) ==
  /\ pc[r] = "idle"
  /\ pc' = [pc EXCEPT ![r] = "find"]
  /\ sessionId' = [sessionId EXCEPT ![r] = s]
  /\ userMessage' = [userMessage EXCEPT ![r] = t]
  /\ UNCHANGED <<conversations, messages, modelName, maxRetries, conversation,
                 history, attempt, sent, resps, sleeps, late, genOut, tx,
                 txRuns, out>>

\* processMessage called directly, as the service's tests call it.
Start(r, s, t) ==
  /\ Begin(r, s, t)
  /\ UNCHANGED <<limiterVars, routeVars>>

\* A variant in which every call starts on the model the service was
\* configured with, forgetting an earlier fallback.
ResolvedOnConfiguredModel(r, c) ==
  /\ conversation' = [conversation EXCEPT ![r] = c]
  /\ history' = [history EXCEPT ![r] = FormatHistoryForGemini(RoleAndText(c.messages))]
  /\ attempt' = [attempt EXCEPT ![r] = 1]
  /\ sent' = [sent EXCEPT ![r] = Append(@, CustomModel)]
  /\ pc' = [pc EXCEPT ![r] = "await"]

\* findOrCreateConversation returned c: format the history, enter
\* generateReply and issue the first sendMessage on the current model.
Resolved(r, c) ==
  /\ conversation' = [conversation EXCEPT ![r] = c]
  /\ history' = [history EXCEPT ![r] = FormatHistoryForGemini(RoleAndText(c.messages))]
  /\ attempt' = [attempt EXCEPT ![r] = 1]
  /\ sent' = [sent EXCEPT ![r] = Append(@, modelName)]
  /\ pc' = [pc EXCEPT ![r] = "await"]

\* processMessage rejects with e.
Throws(r, e) ==
  /\ out' = [out EXCEPT ![r] = e]
  /\ pc' = [pc EXCEPT ![r] = "failed"]

FindUniqueReturns(r) ==
  /\ pc[r] = "find"
  /\ LET found == ConversationOf(sessionId[r]) IN
     IF found # {}
     THEN LET i == CHOOSE j \in found : TRUE
              cid == conversations[i].id
          IN Resolved(r, [id |-> cid, messages |-> MessagesOf(messages, cid)])
     ELSE /\ pc' = [pc EXCEPT ![r] = "create"]
          /\ UNCHANGED <<conversation, history, attempt, sent>>
  /\ UNCHANGED <<conversations, messages, modelName, maxRetries, sessionId,
                 userMessage, resps, sleeps, late, genOut, tx, txRuns, out,
                 limiterVars, routeVars>>

\* conversation.create: sessionId is @unique, a second row is rejected
\* (P2002) and the rejection is not caught.
CreateReturns(r) ==
  /\ pc[r] = "create"
  /\ IF ~UniqueViolation(sessionId[r])
     THEN /\ conversations' = Append(conversations,
                                 [id |-> r, sessionId |-> sessionId[r]])
          /\ Resolved(r, [id |-> r, messages |-> <<>>])
          /\ UNCHANGED out
     ELSE /\ Throws(r, Err("P2002", {}))
          /\ UNCHANGED <<conversations, conversation, history, attempt, sent>>
  /\ UNCHANGED <<messages, modelName, maxRetries, sessionId, userMessage,
                 resps, sleeps, late, genOut, tx, txRuns, limiterVars, routeVars>>

\* The store is unavailable during findUnique or create.
DbFailsWith(r, detail) ==
  /\ pc[r] \in {"find", "create"}
  /\ Throws(r, Err("DB_ERROR", detail))
  /\ UNCHANGED <<conversations, messages, modelName, maxRetries, sessionId,
                 userMessage, conversation, history, attempt, sent, resps,
                 sleeps, late, genOut, tx, txRuns, limiterVars, routeVars>>

DbFails(r) == DbFailsWith(r, {})

\* ------------------------------------------------ GeminiService.generateReply
\* response.usageMetadata of an answer: missing, or with a token count.
Usages == {None, [totalTokenCount |-> 42]}

\* Date.now() - startTime of an answered call, in ms.
ResponseTimes == {1200}

\* A variant that reports a token count of 0 when the upstream gives none.
GenerateResultZeroTokens(reply, usage, rt) ==
  [ok |-> TRUE, reply |-> reply, responseTime |-> rt,
   tokensUsed |-> IF usage = None THEN 0 ELSE usage.totalTokenCount]

\* The value generateReply returns: tokensUsed is undefined, and so left
\* out, when the answer has no usageMetadata.
GenerateResult(reply, usage, rt) ==
  IF usage = None
  THEN [ok |-> TRUE, reply |-> reply, responseTime |-> rt]
  ELSE [ok |-> TRUE, reply |-> reply, responseTime |-> rt,
        tokensUsed |-> usage.totalTokenCount]

\* metadata of processMessage's result: tokensUsed and responseTime of g.
Metadata(g) ==
  [f \in DOMAIN g \ {"ok", "reply"} |-> g[f]]

\* sendMessage answered: generateReply returns and processMessage starts
\* the transaction.
UpstreamOkWith(r, reply, usage, rt) ==
  /\ pc[r] = "await"
  /\ resps' = [resps EXCEPT ![r] =
                 Append(@, [kind |-> "ok", status |-> 0, msg |-> {},
                            cur |-> modelName, usage |-> usage])]
  /\ genOut' = [genOut EXCEPT ![r] = GenerateResult(reply, usage, rt)]
  /\ txRuns' = [txRuns EXCEPT ![r] = @ + 1]
  /\ pc' = [pc EXCEPT ![r] = "tx"]
  /\ UNCHANGED <<conversations, messages, modelName, maxRetries, sessionId,
                 userMessage, conversation, history, attempt, sent, sleeps,
                 late, tx, out, limiterVars, routeVars>>

UpstreamOk(r, reply) ==
  \E usage \in Usages, rt \in ResponseTimes : UpstreamOkWith(r, reply, usage, rt)

\* A variant in which processMessage wraps the failure of generateReply.
GenerateThrowsWrapped(r, e) ==
  /\ genOut' = [genOut EXCEPT ![r] = e]
  /\ Throws(r, Err("UNKNOWN", {}))

\* generateReply rejects with e, and processMessage with it.
GenerateThrows(r, e) ==
  /\ genOut' = [genOut EXCEPT ![r] = e]
  /\ Throws(r, e)

\* A variant whose fallback repeats the call without using up an attempt.
CatchFallbackFree(r, e) ==
  LET branch == CatchBranch(e, modelName, attempt[r], maxRetries) IN
  CASE branch = "fallback" ->
         /\ modelName' = DefaultModel
         /\ sent' = [sent EXCEPT ![r] = Append(@, DefaultModel)]
         /\ UNCHANGED <<sleeps, attempt, pc, genOut, out>>
    [] branch = "sleep" ->
         /\ sleeps' = [sleeps EXCEPT ![r] = Append(@, DelayFor(attempt[r]))]
         /\ pc' = [pc EXCEPT ![r] = "sleep"]
         /\ UNCHANGED <<modelName, attempt, sent, genOut, out>>
    [] OTHER ->
         /\ GenerateThrows(r, Err(branch, IF branch = "AI_SERVICE_ERROR"
                                          THEN e.msg ELSE {}))
         /\ UNCHANGED <<modelName, attempt, sent, sleeps>>

\* The catch block of generateReply for the error e of the awaited call.
Catch(r, e) ==
  LET branch == CatchBranch(e, modelName, attempt[r], maxRetries) IN
  CASE branch = "fallback" ->
         /\ modelName' = DefaultModel
         /\ UNCHANGED sleeps
         /\ IF attempt[r] + 1 <= maxRetries
            THEN /\ attempt' = [attempt EXCEPT ![r] = @ + 1]
                 /\ sent' = [sent EXCEPT ![r] = Append(@, DefaultModel)]
                 /\ UNCHANGED <<pc, genOut, out>>
            ELSE /\ attempt' = [attempt EXCEPT ![r] = @ + 1]
                 /\ GenerateThrows(r, Err("AI_SERVICE_ERROR", {"Max retries exceeded"}))
                 /\ UNCHANGED sent
    [] branch = "sleep" ->
         /\ sleeps' = [sleeps EXCEPT ![r] = Append(@, DelayFor(attempt[r]))]
         /\ pc' = [pc EXCEPT ![r] = "sleep"]
         /\ UNCHANGED <<modelName, attempt, sent, genOut, out>>
    [] OTHER ->
         /\ GenerateThrows(r, Err(branch, IF branch = "AI_SERVICE_ERROR"
                                          THEN e.msg ELSE {}))
         /\ UNCHANGED <<modelName, attempt, sent, sleeps>>

UpstreamError(r, e) ==
  /\ pc[r] = "await"
  /\ resps' = [resps EXCEPT ![r] =
                 Append(@, [kind |-> "error", status |-> e.status,
                            msg |-> e.msg, cur |-> modelName])]
  /\ Catch(r, e)
  /\ UNCHANGED <<conversations, messages, maxRetries, sessionId, userMessage,
                 conversation, history, late, tx, txRuns, limiterVars, routeVars>>

\* A variant of withTimeout without the timer: the call is awaited alone.
TimeoutWithoutTimer(r) ==
  /\ pc[r] = "await"
  /\ UNCHANGED vars

\* withTimeout: the timer rejects first; the call itself stays outstanding.
Timeout(r) ==
  /\ pc[r] = "await"
  /\ resps' = [resps EXCEPT ![r] =
                 Append(@, [kind |-> "timeout", status |-> 0,
                            msg |-> TimeoutError.msg, cur |-> modelName])]
  /\ late' = [late EXCEPT ![r] = "pending"]
  /\ Catch(r, TimeoutError)
  /\ UNCHANGED <<conversations, messages, maxRetries, sessionId, userMessage,
                 conversation, history, tx, txRuns, limiterVars, routeVars>>

\* The abandoned call settles after the race is decided: nobody listens.
LateAnswer(r) ==
  /\ late[r] = "pending"
  /\ late' = [late EXCEPT ![r] = "answered"]
  /\ UNCHANGED <<conversations, messages, modelName, maxRetries, pc, sessionId,
                 userMessage, conversation, history, attempt, sent, resps,
                 sleeps, genOut, tx, txRuns, out, limiterVars, routeVars>>

\* The backoff timer fires: next iteration of the loop.
WakeUp(r) ==
  /\ pc[r] = "sleep"
  /\ attempt' = [attempt EXCEPT ![r] = @ + 1]
  /\ sent' = [sent EXCEPT ![r] = Append(@, modelName)]
  /\ pc' = [pc EXCEPT ![r] = "await"]
  /\ UNCHANGED <<conversations, messages, modelName, maxRetries, sessionId,
                 userMessage, conversation, history, resps, sleeps, late,
                 genOut, tx, txRuns, out, limiterVars, routeVars>>

\* ------------------------------------------------------- prisma.$transaction
\* A variant whose batch creates the reply before the user's message.
TxWritesReplyFirst(r) ==
  << [id |-> <<r, 1>>, conversationId |-> conversation[r].id,
      role |-> "ai", text |-> genOut[r].reply],
     [id |-> <<r, 2>>, conversationId |-> conversation[r].id,
      role |-> "user", text |-> userMessage[r]] >>

\* The two message.create of the batch, in order, inside the transaction.
TxWrites(r) ==
  << [id |-> <<r, 1>>, conversationId |-> conversation[r].id,
      role |-> "user", text |-> userMessage[r]],
     [id |-> <<r, 2>>, conversationId |-> conversation[r].id,
      role |-> "ai", text |-> genOut[r].reply] >>

TxInsert(r) ==
  /\ pc[r] = "tx"
  /\ Len(tx[r]) < Len(TxWrites(r))
  /\ tx' = [tx EXCEPT ![r] = Append(@, TxWrites(r)[Len(@) + 1])]
  /\ UNCHANGED <<conversations, messages, modelName, maxRetries, pc, sessionId,
                 userMessage, conversation, history, attempt, sent, resps,
                 sleeps, late, genOut, txRuns, out, limiterVars, routeVars>>

\* A variant in which the writes of one session commit in the order of
\* the requests: a request waits for every earlier one that is in flight.
TxCommitInRequestOrder(r) ==
  /\ pc[r] = "tx"
  /\ Len(tx[r]) = Len(TxWrites(r))
  /\ \A q \in 1..(r - 1) : pc[q] \in {"idle", "done", "failed"}
  /\ messages' = messages \o tx[r]
  /\ tx' = [tx EXCEPT ![r] = <<>>]
  /\ out' = [out EXCEPT ![r] =
               [ok |-> TRUE, reply |-> genOut[r].reply,
                sessionId |-> sessionId[r], messageId |-> tx[r][2].id,
                metadata |-> Metadata(genOut[r])]]
  /\ pc' = [pc EXCEPT ![r] = "done"]
  /\ UNCHANGED <<conversations, modelName, maxRetries, sessionId, userMessage,
                 conversation, history, attempt, sent, resps, sleeps, late,
                 genOut, txRuns, limiterVars, routeVars>>

\* A variant whose commit rewrites the table instead of adding to it.
TxCommitReplaces(r) ==
  /\ pc[r] = "tx"
  /\ Len(tx[r]) = Len(TxWrites(r))
  /\ messages' = tx[r]
  /\ tx' = [tx EXCEPT ![r] = <<>>]
  /\ out' = [out EXCEPT ![r] =
               [ok |-> TRUE, reply |-> genOut[r].reply,
                sessionId |-> sessionId[r], messageId |-> tx[r][2].id,
                metadata |-> Metadata(genOut[r])]]
  /\ pc' = [pc EXCEPT ![r] = "done"]
  /\ UNCHANGED <<conversations, modelName, maxRetries, sessionId, userMessage,
                 conversation, history, attempt, sent, resps, sleeps, late,
                 genOut, txRuns, limiterVars, routeVars>>

\* Commit makes both rows visible; processMessage returns.
TxCommit(r) ==
  /\ pc[r] = "tx"
  /\ Len(tx[r]) = Len(TxWrites(r))
  /\ messages' = messages \o tx[r]
  /\ tx' = [tx EXCEPT ![r] = <<>>]
  /\ out' = [out EXCEPT ![r] =
               [ok |-> TRUE, reply |-> genOut[r].reply,
                sessionId |-> sessionId[r], messageId |-> tx[r][2].id,
                metadata |-> Metadata(genOut[r])]]
  /\ pc' = [pc EXCEPT ![r] = "done"]
  /\ UNCHANGED <<conversations, modelName, maxRetries, sessionId, userMessage,
                 conversation, history, attempt, sent, resps, sleeps, late,
                 genOut, txRuns, limiterVars, routeVars>>

\* A variant that runs the transaction again after a failure.
TxFailsRetried(r) ==
  /\ pc[r] = "tx"
  /\ txRuns[r] < 3
  /\ tx' = [tx EXCEPT ![r] = <<>>]
  /\ txRuns' = [txRuns EXCEPT ![r] = @ + 1]
  /\ UNCHANGED <<conversations, messages, modelName, maxRetries, pc, sessionId,
                 userMessage, conversation, history, attempt, sent, resps,
                 sleeps, late, genOut, out, limiterVars, routeVars>>

\* A variant without a transaction: the rows written before the failure stay.
TxFailsKeepsWrites(r) ==
  /\ pc[r] = "tx"
  /\ messages' = messages \o tx[r]
  /\ tx' = [tx EXCEPT ![r] = <<>>]
  /\ Throws(r, Err("DB_ERROR", {}))
  /\ UNCHANGED <<conversations, modelName, maxRetries, sessionId,
                 userMessage, conversation, history, attempt, sent, resps,
                 sleeps, late, genOut, txRuns, limiterVars, routeVars>>

\* The transaction fails: it is rolled back and the failure is not retried.
TxFails(r) ==
  /\ pc[r] = "tx"
  /\ tx' = [tx EXCEPT ![r] = <<>>]
  /\ Throws(r, Err("DB_ERROR", {}))
  /\ UNCHANGED <<conversations, messages, modelName, maxRetries, sessionId,
                 userMessage, conversation, history, attempt, sent, resps,
                 sleeps, late, genOut, txRuns, limiterVars, routeVars>>

Next ==
  \/ \E r \in Requests, s \in Sessions, t \in Texts : Start(r, s, t)
  \/ \E r \in Requests : FindUniqueReturns(r)
  \/ \E r \in Requests : CreateReturns(r)
  \/ \E r \in Requests : DbFails(r)
  \/ \E r \in Requests, reply \in Replies : UpstreamOk(r, reply)
  \/ \E r \in Requests, e \in UpstreamErrors : UpstreamError(r, e)
  \/ \E r \in Requests : Timeout(r)
  \/ \E r \in Requests : LateAnswer(r)
  \/ \E r \in Requests : WakeUp(r)
  \/ \E r \in Requests : TxInsert(r)
  \/ \E r \in Requests : TxCommit(r)
  \/ \E r \in Requests : TxFails(r)

Spec == Init /\ [][Next]_vars

\* generateReply alone, with its timers: the steps up to the moment it
\* returns or throws.
NextGenerate ==
  \/ \E r \in Requests, s \in Sessions, t \in Texts : Start(r, s, t)
  \/ \E r \in Requests : FindUniqueReturns(r)
  \/ \E r \in Requests : CreateReturns(r)
  \/ \E r \in Requests, reply \in Replies : UpstreamOk(r, reply)
  \/ \E r \in Requests, e \in UpstreamErrors : UpstreamError(r, e)
  \/ \E r \in Requests : Timeout(r)
  \/ \E r \in Requests : LateAnswer(r)
  \/ \E r \in Requests : WakeUp(r)

\* Timers fire: the setTimeout of sleep and the one of withTimeout.
TimersFire ==
  \A r \in Requests : WF_vars(Timeout(r)) /\ WF_vars(WakeUp(r))

SpecGenerate == Init /\ [][NextGenerate]_vars /\ TimersFire

\* ------------------------------------------------------------- RateLimiter
WindowOpen(entry, t) == entry # None /\ ~(t > entry.resetTime)

\* A variant that forgets to open a new window.
FreshEntryNoWindow(t, cfg) == [count |-> 1, resetTime |-> t]

FreshEntry(t, cfg) == [count |-> 1, resetTime |-> t + cfg.windowMs]

\* A variant that lets one request too many through.
ExceededOffByOne(count, cfg) == count > cfg.maxRequests + 1

Exceeded(count, cfg) == count > cfg.maxRequests

\* isRateLimited(k, config) at time now; the call and its result are logged.
\* A variant that keeps one counter for all keys.
CheckKeySharedCounter(k) ==
  LET open == \E j \in StoreKeys : WindowOpen(store[j], now)
      cur == CHOOSE j \in StoreKeys : open => WindowOpen(store[j], now)
  IN IF ~open
     THEN /\ store' = [j \in StoreKeys |-> FreshEntry(now, config)]
          /\ log' = Append(log, [key |-> k, t |-> now, limited |-> FALSE])
     ELSE /\ store' = [j \in StoreKeys |->
                         [store[cur] EXCEPT !.count = @ + 1]]
          /\ log' = Append(log, [key |-> k, t |-> now,
                                 limited |-> Exceeded(store[cur].count + 1, config)])

\* A variant that does not count the calls it limits.
CheckKeyLimitedNotCounted(k) ==
  IF ~WindowOpen(store[k], now)
  THEN /\ store' = [store EXCEPT ![k] = FreshEntry(now, config)]
       /\ log' = Append(log, [key |-> k, t |-> now, limited |-> FALSE])
  ELSE /\ store' = [store EXCEPT ![k].count =
                      IF Exceeded(@ + 1, config) THEN @ ELSE @ + 1]
       /\ log' = Append(log, [key |-> k, t |-> now,
                              limited |-> Exceeded(store[k].count + 1, config)])

\* A variant that compares the count with the limit on the first call too.
CheckKeyFirstCompared(k) ==
  IF ~WindowOpen(store[k], now)
  THEN /\ store' = [store EXCEPT ![k] = FreshEntry(now, config)]
       /\ log' = Append(log, [key |-> k, t |-> now,
                              limited |-> Exceeded(1, config)])
  ELSE /\ store' = [store EXCEPT ![k].count = @ + 1]
       /\ log' = Append(log, [key |-> k, t |-> now,
                              limited |-> Exceeded(store[k].count + 1, config)])

CheckKey(k) ==
  IF ~WindowOpen(store[k], now)
  THEN /\ store' = [store EXCEPT ![k] = FreshEntry(now, config)]
       /\ log' = Append(log, [key |-> k, t |-> now, limited |-> FALSE])
  ELSE /\ store' = [store EXCEPT ![k].count = @ + 1]
       /\ log' = Append(log, [key |-> k, t |-> now,
                              limited |-> Exceeded(store[k].count + 1, config)])

\* isRateLimited called directly, as the limiter's tests call it.
IsRateLimited(k) ==
  /\ Len(log) < MaxCalls
  /\ CheckKey(k)
  /\ UNCHANGED <<now, config, chatVars, routeVars>>

\* A variant without the clamp at zero.
RemainingOfUnclamped(entry, t, cfg) ==
  IF ~WindowOpen(entry, t) THEN cfg.maxRequests
  ELSE cfg.maxRequests - entry.count

RemainingOf(entry, t, cfg) ==
  IF ~WindowOpen(entry, t) THEN cfg.maxRequests
  ELSE IF cfg.maxRequests - entry.count > 0
       THEN cfg.maxRequests - entry.count ELSE 0

GetRemaining(k, cfg) == RemainingOf(store[k], now, cfg)

GetResetTime(k) == IF store[k] # None THEN store[k].resetTime ELSE None

\* A variant of the sweep that deletes every entry, live ones included.
CleanupEverything ==
  /\ \E k \in StoreKeys : store[k] # None
  /\ store' = [k \in StoreKeys |-> None]
  /\ UNCHANGED <<now, config, log, chatVars, routeVars>>

\* The periodic sweep: expired entries are deleted.
Cleanup ==
  /\ \E k \in StoreKeys : store[k] # None /\ now > store[k].resetTime
  /\ store' = [k \in StoreKeys |->
                 IF store[k] # None /\ now > store[k].resetTime
                 THEN None ELSE store[k]]
  /\ UNCHANGED <<now, config, log, chatVars, routeVars>>

\* Time passes.
Tick ==
  /\ now < MaxTime
  /\ now' = now + 1
  /\ UNCHANGED <<store, config, log, chatVars, routeVars>>

InitLimiter ==
  /\ ChatInit
  /\ modelName = DefaultModel
  /\ maxRetries = 3
  /\ LimiterInit
  /\ config \in [windowMs : 1..MaxWindowMs, maxRequests : 0..MaxMaxRequests]
  /\ RouteInit

NextLimiter ==
  \/ \E k \in Keys : IsRateLimited(k)
  \/ Cleanup
  \/ Tick

SpecLimiter == InitLimiter /\ [][NextLimiter]_vars

\* A variant of getRemaining that drops the entry it finds expired.
GetRemainingCallDropping(k) ==
  /\ got' = [key |-> k, remaining |-> GetRemaining(k, config)]
  /\ store' = [store EXCEPT ![k] =
                 IF WindowOpen(store[k], now) THEN store[k] ELSE None]
  /\ UNCHANGED <<now, config, log, chatVars, req, res, clientVars>>

\* getRemaining(k, config) is called and its result kept.
GetRemainingCall(k) ==
  /\ got' = [key |-> k, remaining |-> GetRemaining(k, config)]
  /\ UNCHANGED <<limiterVars, chatVars, req, res, clientVars>>

\* getResetTime(k) is called and its result kept: a time, or null.
GetResetTimeCall(k) ==
  /\ got' = IF store[k] = None
            THEN [key |-> k, null |-> TRUE]
            ELSE [key |-> k, resetTime |-> GetResetTime(k)]
  /\ UNCHANGED <<limiterVars, chatVars, req, res, clientVars>>

\* The limiter with its two queries.
NextQueries ==
  \/ \E k \in Keys : IsRateLimited(k)
  \/ \E k \in Keys : GetRemainingCall(k)
  \/ \E k \in Keys : GetResetTimeCall(k)
  \/ Cleanup
  \/ Tick

SpecQueries == InitLimiter /\ [][NextQueries]_vars

\* ------------------------------------------------- POST /message, catch block
\* error.message.includes(sub) for the message code + ': ' + detail.
MessageIncludes(e, sub) ==
  \/ sub \in e.detail
  \/ sub = e.code
  \/ sub = "RATE_LIMIT" /\ e.code = "RATE_LIMIT_EXCEEDED"

RouteErrorCode(e) ==
  IF MessageIncludes(e, "RATE_LIMIT") THEN "RATE_LIMIT"
  ELSE IF MessageIncludes(e, "timed out") \/ MessageIncludes(e, "TIMEOUT")
       THEN "TIMEOUT"
  ELSE IF MessageIncludes(e, "MODEL_NOT_FOUND")
          \/ MessageIncludes(e, "AI_SERVICE_ERROR")
       THEN "SERVICE_UNAVAILABLE"
  ELSE "UNKNOWN"

\* Status of the catch block's response for each error code.
RouteStatus(code) ==
  CASE code = "RATE_LIMIT" -> 429
    [] code = "TIMEOUT" -> 504
    [] code = "SERVICE_UNAVAILABLE" -> 503
    [] OTHER -> 500

\* ------------------------------------------------- POST /api/chat/message
MaxMessageLength == 2000
DefaultRetryAfter == 60
MsPerSecond == 1000

\* A body field that is missing or empty: falsy for the || of the key.
Absent == ""

\* The message of a body: None when it is missing or not a string, else a
\* string of lead blanks followed by core characters that begin and end
\* with a non-blank.
Messages ==
  { None,
    [lead |-> 1, core |-> 0],
    [lead |-> 0, core |-> 1],
    [lead |-> 1, core |-> MaxMessageLength],
    [lead |-> 0, core |-> MaxMessageLength + 1] }

\* The requests sent to the route: a session's request with every kind of
\* message, and requests without a sessionId, with and without an address.
PostInputs ==
  { [body |-> [sessionId |-> "s1", message |-> m], ip |-> i] :
      m \in Messages, i \in Ips }
  \cup
  { [body |-> [sessionId |-> Absent, message |-> [lead |-> 0, core |-> 1]],
     ip |-> i] : i \in Ips \cup {Absent} }

Length(m) == m.lead + m.core

Trim(m) == [lead |-> 0, core |-> m.core]

IsUuid(s) == s \in Sessions

\* A variant of the schema that measures the message before trimming it.
SafeParseUntrimmed(b) ==
  /\ b.message # None
  /\ Length(b.message) > 0
  /\ Length(b.message) <= MaxMessageLength
  /\ IsUuid(b.sessionId)

\* chatMessageSchema.safeParse(body).success
SafeParse(b) ==
  /\ b.message # None
  /\ Length(Trim(b.message)) > 0
  /\ Length(Trim(b.message)) <= MaxMessageLength
  /\ IsUuid(b.sessionId)

\* The middleware's key: body.sessionId || ip || 'anonymous'.
\* A variant that keys every request by the caller's address first.
RateLimitKeyIpFirst(b, ip) ==
  IF ip # Absent THEN ip
  ELSE IF b.sessionId # Absent THEN b.sessionId
  ELSE "anonymous"

\* req.body?.sessionId || req.ip || 'anonymous'
RateLimitKey(b, ip) ==
  IF b.sessionId # Absent THEN b.sessionId
  ELSE IF ip # Absent THEN ip
  ELSE "anonymous"

CeilDiv(a, b) == IF a >= 0 THEN (a + b - 1) \div b ELSE -((-a) \div b)

\* A variant that always answers the fallback hint.
RetryAfterFallbackOnly(resetTime, t) == DefaultRetryAfter

\* Math.ceil((resetTime - Date.now()) / 1000), or 60 without a reset time.
RetryAfter(resetTime, t) ==
  IF resetTime # 0 THEN CeilDiv(resetTime - t, MsPerSecond)
  ELSE DefaultRetryAfter

\* The middleware's 429.
LimitedResponse(retryAfter) ==
  [status  |-> 429,
   json    |-> [errorCode |-> "RATE_LIMIT", retryAfter |-> retryAfter],
   headers |-> [h \in {"Retry-After", "X-RateLimit-Remaining"} |->
                  IF h = "Retry-After" THEN retryAfter ELSE 0]]

\* A variant that reports the remaining count as it was before the request.
RemainingHeaderBefore(n) == [h \in {"X-RateLimit-Remaining"} |-> n + 1]

\* res.setHeader('X-RateLimit-Remaining', ...) of a request that is let through.
RemainingHeader(n) == [h \in {"X-RateLimit-Remaining"} |-> n]

\* A request arrives: the middleware counts it under its key and either
\* answers 429 or sets the remaining header and calls next(); the handler
\* then validates the body and either answers 400 or calls processMessage,
\* which issues findUnique. isRateLimited reads the clock (now); the
\* middleware's Date.now() and the one of getRemaining read it again (t2).
PostMessageAt(r, b, ip, t2) ==
  LET k == RateLimitKey(b, ip) IN
  /\ pc[r] = "idle"
  /\ Len(log) < MaxPosts
  /\ CheckKey(k)
  /\ now' = t2
  /\ req' = [r |-> r, body |-> b, ip |-> ip]
  /\ IF log'[Len(log')].limited
     THEN /\ res' = [res EXCEPT ![r] =
                       LimitedResponse(
                         RetryAfter(IF store'[k] # None
                                    THEN store'[k].resetTime ELSE 0, t2))]
          /\ UNCHANGED chatVars
     ELSE LET hdr == RemainingHeader(RemainingOf(store'[k], t2, config)) IN
          IF ~SafeParse(b)
          THEN /\ res' = [res EXCEPT ![r] =
                            [status  |-> 400,
                             json    |-> [errorCode |-> "VALIDATION_ERROR"],
                             headers |-> hdr]]
               /\ UNCHANGED chatVars
          ELSE /\ res' = [res EXCEPT ![r] =
                            [status |-> 0, json |-> None, headers |-> hdr]]
               /\ Begin(r, b.sessionId, Trim(b.message))
  /\ UNCHANGED <<config, got, clientVars>>

\* The clock may move on by a millisecond between the two reads.
PostMessage(r, b, ip) ==
  \E t2 \in {now, now + 1} :
    /\ t2 <= MaxRouteTime
    /\ PostMessageAt(r, b, ip, t2)

\* processMessage has settled: the handler answers 200 with its result, or
\* its catch block answers with the code it reads off the error's message.
Respond(r) ==
  /\ pc[r] \in {"done", "failed"}
  /\ res[r] # None
  /\ res[r].status = 0
  /\ res' = [res EXCEPT ![r] =
       IF pc[r] = "done"
       THEN [@ EXCEPT !.status = 200,
                      !.json = [reply |-> out[r].reply,
                                sessionId |-> out[r].sessionId,
                                messageId |-> out[r].messageId,
                                metadata |-> out[r].metadata]]
       ELSE [@ EXCEPT !.status = RouteStatus(RouteErrorCode(out[r])),
                      !.json = [errorCode |-> RouteErrorCode(out[r])]]]
  /\ UNCHANGED <<req, got, clientVars, chatVars, limiterVars>>

\* Messages the store's driver attaches to a failure.
DbDetails == {{}, {"timed out"}}

\* The server as deployed: the route's limiter policy is a small window
\* and a small maximum in place of 60000 ms and 20 requests.
InitRoute ==
  /\ ChatInit
  /\ modelName = DefaultModel
  /\ maxRetries = 1
  /\ LimiterInit
  /\ config \in [windowMs : {1}, maxRequests : 1..MaxMaxRequests]
  /\ RouteInit

NextRoute ==
  \/ \E r \in Requests, i \in PostInputs :
       /\ \A q \in 1..(r - 1) : pc[q] # "idle"
       /\ PostMessage(r, i.body, i.ip)
  \/ \E r \in Requests : Respond(r)
  \/ \E r \in Requests : FindUniqueReturns(r)
  \/ \E r \in Requests : CreateReturns(r)
  \/ \E r \in Requests, d \in DbDetails : DbFailsWith(r, d)
  \/ \E r \in Requests, reply \in Replies : UpstreamOk(r, reply)
  \/ \E r \in Requests, e \in UpstreamErrors : UpstreamError(r, e)
  \/ \E r \in Requests : Timeout(r)
  \/ \E r \in Requests : TxInsert(r)
  \/ \E r \in Requests : TxCommit(r)
  \/ \E r \in Requests : TxFails(r)
  \/ Cleanup
  \/ now < MaxRouteTime /\ Tick

SpecRoute == InitRoute /\ [][NextRoute]_vars

\* ------------------------------------- GeminiService.formatHistoryForGemini
\* Roles a stored message may carry: the current route stores ai, an
\* earlier one stored model.
StoredRoles == {"user", "ai", "model"}

RECURSIVE SeqsUpTo(_, _)
SeqsUpTo(S, n) ==
  IF n = 0 THEN {<<>>}
  ELSE LET shorter == SeqsUpTo(S, n - 1)
       IN shorter \cup { Append(q, x) : q \in { p \in shorter : Len(p) = n - 1 },
                                        x \in S }

StoredMessages ==
  [id : {<<0, 0>>}, conversationId : {0}, role : StoredRoles, text : Texts \cup Replies]

\* formatHistoryForGemini called on the messages a request has read.
FormatHistory(r) ==
  /\ pc[r] = "idle"
  /\ conversation[r] # None
  /\ history' = [history EXCEPT ![r] =
                   FormatHistoryForGemini(RoleAndText(conversation[r].messages))]
  /\ pc' = [pc EXCEPT ![r] = "formatted"]
  /\ UNCHANGED <<conversations, messages, modelName, maxRetries, sessionId,
                 userMessage, conversation, attempt, sent, resps, sleeps,
                 late, genOut, tx, txRuns, out, limiterVars, routeVars>>

\* Every list of at most MaxHistory stored messages is an input.
InitFormat ==
  /\ conversations = <<>>
  /\ messages = <<>>
  /\ pc = [r \in Requests |-> "idle"]
  /\ sessionId = [r \in Requests |-> "s1"]
  /\ userMessage = [r \in Requests |-> "Hi"]
  /\ \E m \in SeqsUpTo(StoredMessages, MaxHistory) :
       conversation = [r \in Requests |->
                         IF r = 1 THEN [id |-> 0, messages |-> m] ELSE None]
  /\ history = [r \in Requests |-> <<>>]
  /\ attempt = [r \in Requests |-> 0]
  /\ sent = [r \in Requests |-> <<>>]
  /\ resps = [r \in Requests |-> <<>>]
  /\ sleeps = [r \in Requests |-> <<>>]
  /\ late = [r \in Requests |-> "none"]
  /\ genOut = [r \in Requests |-> None]
  /\ tx = [r \in Requests |-> <<>>]
  /\ txRuns = [r \in Requests |-> 0]
  /\ out = [r \in Requests |-> None]
  /\ modelName = DefaultModel
  /\ maxRetries = 3
  /\ LimiterInit
  /\ config = ChatRateLimitConfig
  /\ RouteInit

NextFormat == \E r \in Requests : FormatHistory(r)

SpecFormat == InitFormat /\ [][NextFormat]_vars

\* --------------------------------------------------- ChatService.getHistory
\* A variant that resolves the conversation the way processMessage does,
\* creating it when it is missing.
GetHistoryCallCreating(s) ==
  /\ got' = [sessionId |-> s, messages |-> GetHistory(s)]
  /\ conversations' =
       IF ConversationOf(s) = {}
       THEN Append(conversations, [id |-> Len(conversations) + NumRequests + 1,
                                   sessionId |-> s])
       ELSE conversations
  /\ UNCHANGED <<messages, modelName, maxRetries, pc, sessionId, userMessage,
                 conversation, history, attempt, sent, resps, sleeps, late,
                 genOut, tx, txRuns, out, limiterVars, req, res, clientVars>>

\* getHistory(s): one findUnique, whose result is returned.
GetHistoryCall(s) ==
  /\ got' = [sessionId |-> s, messages |-> GetHistory(s)]
  /\ UNCHANGED <<chatVars, limiterVars, req, res, clientVars>>

\* The service with a generator that gives up after one attempt.
InitHistory ==
  /\ ChatInit
  /\ modelName \in {DefaultModel, CustomModel}
  /\ maxRetries = 1
  /\ LimiterInit
  /\ config = ChatRateLimitConfig
  /\ RouteInit

NextHistory ==
  \/ \E r \in Requests, s \in Sessions, t \in Texts : Start(r, s, t)
  \/ \E r \in Requests : FindUniqueReturns(r)
  \/ \E r \in Requests : CreateReturns(r)
  \/ \E r \in Requests, reply \in Replies : UpstreamOk(r, reply)
  \/ \E r \in Requests, e \in UpstreamErrors : UpstreamError(r, e)
  \/ \E r \in Requests : TxInsert(r)
  \/ \E r \in Requests : TxCommit(r)
  \/ \E s \in Sessions : GetHistoryCall(s)

SpecHistory == InitHistory /\ [][NextHistory]_vars

\* ------------------------------------------------- client: fetchWithRetry
MAX_RETRIES == 3
RETRY_DELAYS == <<1000, 2000, 4000>>

\* Statuses a response may carry, and the errors a fetch may reject with.
Statuses == {200, 400, 404, 429, 500, 503}
NetworkErrors == {"ECONNRESET", "ENOTFOUND"}

\* response.status >= 400 && response.status < 500 && response.status !== 429
IsClientError(status) == status >= 400 /\ status < 500 /\ status # 429

\* response.status >= 500 || response.status === 429
IsRetryable(status) == status >= 500 \/ status = 429

\* RETRY_DELAYS[attempt] || RETRY_DELAYS[RETRY_DELAYS.length - 1]
RetryDelay(a) ==
  IF a + 1 <= Len(RETRY_DELAYS) THEN RETRY_DELAYS[a + 1]
  ELSE RETRY_DELAYS[Len(RETRY_DELAYS)]

\* fetchWithRetry(url, options) is called: the first fetch is issued.
FetchWithRetry ==
  /\ fetchPc = "idle"
  /\ fetchAttempt' = 0
  /\ fetchPc' = "fetch"
  /\ UNCHANGED <<fetched, fetchSleeps, lastError, fetchResult, req, res, got,
                 chatVars, limiterVars>>

\* A variant that throws when the attempts run out on a failing response.
FetchRespondsThrowing(status) ==
  /\ fetchPc = "fetch"
  /\ fetched' = Append(fetched, [kind |-> "response", status |-> status])
  /\ IF IsClientError(status)
     THEN /\ fetchResult' = [returned |-> status]
          /\ fetchPc' = "returned"
          /\ UNCHANGED fetchSleeps
     ELSE IF IsRetryable(status) /\ fetchAttempt < MAX_RETRIES - 1
     THEN /\ fetchSleeps' = Append(fetchSleeps, RetryDelay(fetchAttempt))
          /\ fetchPc' = "sleep"
          /\ UNCHANGED fetchResult
     ELSE IF IsRetryable(status)
     THEN /\ fetchResult' = [thrown |-> "Request failed after retries"]
          /\ fetchPc' = "thrown"
          /\ UNCHANGED fetchSleeps
     ELSE /\ fetchResult' = [returned |-> status]
          /\ fetchPc' = "returned"
          /\ UNCHANGED fetchSleeps
  /\ UNCHANGED <<fetchAttempt, lastError, req, res, got, chatVars, limiterVars>>

\* The awaited fetch resolves with a response.
FetchResponds(status) ==
  /\ fetchPc = "fetch"
  /\ fetched' = Append(fetched, [kind |-> "response", status |-> status])
  /\ IF IsClientError(status)
     THEN /\ fetchResult' = [returned |-> status]
          /\ fetchPc' = "returned"
          /\ UNCHANGED fetchSleeps
     ELSE IF IsRetryable(status) /\ fetchAttempt < MAX_RETRIES - 1
     THEN /\ fetchSleeps' = Append(fetchSleeps, RetryDelay(fetchAttempt))
          /\ fetchPc' = "sleep"
          /\ UNCHANGED fetchResult
     ELSE /\ fetchResult' = [returned |-> status]
          /\ fetchPc' = "returned"
          /\ UNCHANGED fetchSleeps
  /\ UNCHANGED <<fetchAttempt, lastError, req, res, got, chatVars, limiterVars>>

\* The awaited fetch rejects (network error): the catch block.
FetchRejects(e) ==
  /\ fetchPc = "fetch"
  /\ fetched' = Append(fetched, [kind |-> "error", error |-> e])
  /\ lastError' = [message |-> e]
  /\ IF fetchAttempt < MAX_RETRIES - 1
     THEN /\ fetchSleeps' = Append(fetchSleeps, RetryDelay(fetchAttempt))
          /\ fetchPc' = "sleep"
          /\ UNCHANGED <<fetchAttempt, fetchResult>>
     ELSE /\ fetchAttempt' = fetchAttempt + 1
          /\ fetchResult' = [thrown |-> e]
          /\ fetchPc' = "thrown"
          /\ UNCHANGED fetchSleeps
  /\ UNCHANGED <<req, res, got, chatVars, limiterVars>>

\* The backoff timer fires: continue, attempt++, next fetch.
FetchWakeUp ==
  /\ fetchPc = "sleep"
  /\ fetchAttempt' = fetchAttempt + 1
  /\ fetchPc' = "fetch"
  /\ UNCHANGED <<fetched, fetchSleeps, lastError, fetchResult, req, res, got,
                 chatVars, limiterVars>>

NextFetch ==
  \/ FetchWithRetry
  \/ \E status \in Statuses : FetchResponds(status)
  \/ \E e \in NetworkErrors : FetchRejects(e)
  \/ FetchWakeUp

\* The awaited fetch resolves or rejects.
FetchSettlesStep ==
  \/ \E status \in Statuses : FetchResponds(status)
  \/ \E e \in NetworkErrors : FetchRejects(e)

\* Every fetch settles and the backoff timer fires.
FetchSettles ==
  /\ WF_vars(FetchSettlesStep)
  /\ WF_vars(FetchWakeUp)

SpecFetch == InitRoute /\ [][NextFetch]_vars /\ FetchSettles

\* =================================================================== claims
\* Positions in the Message table of the rows written by request r.
RowsOf(r) == { i \in 1..Len(messages) : messages[i].id[1] = r }

\* C1: a successful processMessage(sessionId, text) has added exactly two
\* rows to the conversation of its session, the user's text with role user
\* immediately followed by the reply, and a request that has not succeeded
\* has no row visible: never only one of the two.
C1_AtomicPair ==
  \A r \in Requests :
    IF pc[r] = "done"
    THEN \E i \in 1..Len(messages) :
           /\ RowsOf(r) = {i, i + 1}
           /\ messages[i].role = "user"
           /\ messages[i].text = userMessage[r]
           /\ messages[i + 1].role = "ai"
           /\ messages[i + 1].text = out[r].reply
           /\ \A j \in {i, i + 1} :
                \E c \in ConversationOf(sessionId[r]) :
                  conversations[c].id = messages[j].conversationId
    ELSE RowsOf(r) = {}

\* C1 witness: one request has committed its pair while another request of
\* the same session is halfway through its own transaction.
C1_Witness ==
  \E r, q \in Requests :
    /\ r # q
    /\ sessionId[r] = sessionId[q]
    /\ pc[r] = "done"
    /\ pc[q] = "tx"
    /\ Len(tx[q]) = 1

ResolveFailed(r) == pc[r] = "failed" /\ conversation[r] = None
GenerateFailed(r) == genOut[r] # None /\ ~genOut[r].ok

\* C2: when resolution or reply generation fails, processMessage has
\* failed with that very error, the transaction was never started and no
\* row of the request exists, committed or not.
C2_AbortBeforePersist ==
  \A r \in Requests :
    /\ ResolveFailed(r) =>
         /\ out[r] \in {Err("P2002", {}), Err("DB_ERROR", {})}
         /\ genOut[r] = None
         /\ txRuns[r] = 0 /\ tx[r] = <<>> /\ RowsOf(r) = {}
    /\ GenerateFailed(r) =>
         /\ pc[r] = "failed"
         /\ out[r] = genOut[r]
         /\ txRuns[r] = 0 /\ tx[r] = <<>> /\ RowsOf(r) = {}

\* C2 witness: one request failed in resolution and another in generation.
C2_Witness ==
  \E r, q \in Requests :
    /\ ResolveFailed(r)
    /\ GenerateFailed(q)
    /\ out[q].code = "RATE_LIMIT_EXCEEDED"

AlwaysRateLimited(r) ==
  /\ Len(resps[r]) >= 1
  /\ \A i \in 1..Len(resps[r]) :
       resps[r][i].kind = "error" /\ resps[r][i].status = 429

\* C3: with a retry limit of 3 and an upstream that answers 429 to every
\* call, generateReply sleeps 10s then 30s and nothing else, and ends after
\* exactly 3 calls with RATE_LIMIT_EXCEEDED.
C3_RetrySchedule ==
  \A r \in Requests :
    (maxRetries = 3 /\ AlwaysRateLimited(r)) =>
      /\ Len(sent[r]) <= 3
      /\ Len(sleeps[r]) <= 2
      /\ \A i \in 1..Len(sleeps[r]) : sleeps[r][i] = <<10000, 30000>>[i]
      /\ pc[r] \notin {"await", "sleep"} =>
           /\ Len(sent[r]) = 3
           /\ sleeps[r] = <<10000, 30000>>
           /\ pc[r] = "failed"
           /\ genOut[r] = Err("RATE_LIMIT_EXCEEDED", {})

\* C3 witness: three 429 answers have been handled with a retry limit of 3.
C3_Witness ==
  \E r \in Requests :
    maxRetries = 3 /\ AlwaysRateLimited(r) /\ Len(resps[r]) = 3

FellBackAt(r, i) ==
  /\ resps[r][i].kind = "error"
  /\ resps[r][i].status = 404
  /\ resps[r][i].cur # DefaultModel

RateLimitedAfter(r, i) ==
  /\ Len(resps[r]) > i
  /\ \A j \in (i + 1)..Len(resps[r]) :
       resps[r][j].kind = "error" /\ resps[r][j].status = 429

\* C4: after a not-found on a non-default model, the default model is
\* called at once, whatever the retry limit, and the fallback costs no
\* attempt: a default model that then always answers 429 is called
\* maxRetries times before RATE_LIMIT_EXCEEDED.
C4_FallbackKeepsRetries ==
  \A r \in Requests : \A i \in 1..Len(resps[r]) :
    FellBackAt(r, i) =>
      /\ Len(sent[r]) > i
      /\ sent[r][i + 1] = DefaultModel
      /\ (RateLimitedAfter(r, i) /\ pc[r] \notin {"await", "sleep"}) =>
           /\ genOut[r] = Err("RATE_LIMIT_EXCEEDED", {})
           /\ Cardinality({ j \in (i + 1)..Len(sent[r]) :
                              sent[r][j] = DefaultModel }) = maxRetries

\* The window a key is in after the calls of l, by the definition of a
\* fixed window: it starts at the first call and ends windowMs later.
RECURSIVE WindowAfter(_, _)
WindowAfter(l, k) ==
  IF l = <<>> THEN None
  ELSE LET prev == WindowAfter(SubSeq(l, 1, Len(l) - 1), k)
           e == l[Len(l)]
       IN IF e.key # k THEN prev
          ELSE IF prev = None \/ e.t > prev.start + config.windowMs
               THEN [start |-> e.t, n |-> 1]
               ELSE [start |-> prev.start, n |-> prev.n + 1]

NthInWindow(i) == WindowAfter(SubSeq(log, 1, i), log[i].key).n

\* C5: for every key and every config, a call is limited exactly when it
\* comes after the maxRequests-th call of its window.
C5_LimitedAfterMax ==
  \A i \in 1..Len(log) :
    log[i].limited <=> (NthInWindow(i) > config.maxRequests)

LastCallOf(k) ==
  Len(log) >= 1 /\ log[Len(log)].key = k

\* C6: the stored reset time is the first request of the window plus
\* windowMs, and a call made past it is not limited and replaces the entry
\* by count = 1, resetTime = now + windowMs.
C6_ResetAfterWindow ==
  /\ [](\A k \in Keys :
          store[k] # None =>
            store[k].resetTime = WindowAfter(log, k).start + config.windowMs)
  /\ [][\A k \in Keys :
          (/\ Len(log') = Len(log) + 1
           /\ log'[Len(log')].key = k
           /\ store[k] # None
           /\ now > store[k].resetTime)
          => /\ ~log'[Len(log')].limited
             /\ store'[k] = [count |-> 1,
                             resetTime |-> now + config.windowMs]]_vars

\* C6 witness: a key was limited twice in one window and its next call,
\* made after that window (the entry still stored), opened a new one.
C6_Witness ==
  \E k \in Keys :
    /\ Len(log) >= 4
    /\ LastCallOf(k)
    /\ ~log[Len(log)].limited
    /\ store[k] = [count |-> 1, resetTime |-> now + config.windowMs]
    /\ \E i, j \in 1..(Len(log) - 1) :
         /\ i < j
         /\ log[i].key = k /\ log[i].limited
         /\ log[j].key = k /\ log[j].limited
         /\ log[j].t < now

\* C7: a request that loses the create race for a never-seen token
\* re-fetches; the unique-constraint rejection never reaches its caller.
C7_LostRaceRefetched ==
  \A r \in Requests : pc[r] = "failed" => out[r] # Err("P2002", {})

Resolved2(r, q) ==
  /\ r # q
  /\ conversation[r] # None
  /\ sessionId[r] = sessionId[q]

\* C8: there is never more than one Conversation per session token, and a
\* resolve that runs after another resolve of the same token has returned
\* gets the same conversation id without calling create.
C8_OneConversationPerToken ==
  /\ [](\A s \in Sessions : Cardinality(ConversationOf(s)) <= 1)
  /\ [][\A q \in Requests :
          (/\ pc[q] = "find"
           /\ pc'[q] \notin {"find", "failed"}
           /\ \E r \in Requests : Resolved2(r, q))
          => /\ pc'[q] # "create"
             /\ \A r \in Requests :
                  Resolved2(r, q) => conversation'[q].id = conversation[r].id]_vars

\* C8 witness: two requests of one token are resolved to the conversation
\* the first of them created.
C8_Witness ==
  \E r, q \in Requests :
    /\ Resolved2(r, q)
    /\ conversation[q] # None
    /\ conversation[r].id = r
    /\ conversation[q].id = r

\* C9: once the timeout has fired, generateReply has failed with the
\* timed-out error (TIMEOUT at the boundary), no call was issued after the
\* timed-out one, and nothing of the request is returned or stored, also
\* after the abandoned call has answered.
C9_TimeoutAbandons ==
  \A r \in Requests :
    late[r] # "none" =>
      /\ pc[r] = "failed"
      /\ genOut[r] = Err("AI_SERVICE_ERROR", {"timed out"})
      /\ out[r] = genOut[r]
      /\ RouteErrorCode(out[r]) = "TIMEOUT"
      /\ Len(sent[r]) = Len(resps[r])
      /\ resps[r][Len(resps[r])].kind = "timeout"
      /\ txRuns[r] = 0 /\ tx[r] = <<>> /\ RowsOf(r) = {}

\* C9 witness: the abandoned call has answered after the timeout.
C9_Witness ==
  \E r \in Requests : late[r] = "answered" /\ Len(resps[r]) >= 2

NotFoundOnDefaultAt(r, i) ==
  /\ resps[r][i].kind = "error"
  /\ resps[r][i].status = 404
  /\ ~IsRateLimit(resps[r][i])
  /\ resps[r][i].cur = DefaultModel

\* C10: a not-found that is no rate-limit condition, received while the
\* current model is the default, ends generateReply with MODEL_NOT_FOUND:
\* it is the last call, nothing is slept after it (as first answer: one
\* call, no sleep at all) and the current model stays the default.
C10_NotFoundOnDefault ==
  \A r \in Requests : \A i \in 1..Len(resps[r]) :
    NotFoundOnDefaultAt(r, i) =>
      /\ i = Len(resps[r])
      /\ Len(sent[r]) = i
      /\ Len(sleeps[r]) <= i - 1
      /\ pc[r] = "failed"
      /\ genOut[r] = Err("MODEL_NOT_FOUND", {})
      /\ modelName = DefaultModel

\* C10 witness: the first answer of a request was such a not-found.
C10_Witness ==
  \E r \in Requests : Len(resps[r]) = 1 /\ NotFoundOnDefaultAt(r, 1)

GenericFailure(x) ==
  x.kind = "error" /\ x.status \notin {404, 429} /\ ~IsRateLimit(x)

\* C11: an upstream failure that is neither rate-limit nor not-found ends
\* generateReply at once with AI_SERVICE_ERROR carrying the upstream's
\* message: the failed call is the last one, and the step that handles it
\* sends nothing, sleeps nothing and leaves the current model alone.
C11_GenericFailsAtOnce ==
  /\ [](\A r \in Requests : \A i \in 1..Len(resps[r]) :
          GenericFailure(resps[r][i]) =>
            /\ i = Len(resps[r])
            /\ Len(sent[r]) = i
            /\ Len(sleeps[r]) <= i - 1
            /\ pc[r] = "failed"
            /\ genOut[r] = Err("AI_SERVICE_ERROR", resps[r][i].msg))
  /\ [][\A r \in Requests :
          (/\ Len(resps'[r]) = Len(resps[r]) + 1
           /\ GenericFailure(resps'[r][Len(resps'[r])]))
          => /\ sent'[r] = sent[r]
             /\ sleeps'[r] = sleeps[r]
             /\ modelName' = modelName]_vars

\* C11 witness: the first answer of a request was a generic failure with a
\* message of its own.
C11_Witness ==
  \E r \in Requests :
    /\ Len(resps[r]) = 1
    /\ GenericFailure(resps[r][1])
    /\ resps[r][1].msg # {}
    /\ sleeps[r] = <<>>

DoneOn(s) == { r \in Requests : pc[r] = "done" /\ sessionId[r] = s }

PairAt(s, r) ==
  CHOOSE k \in 1..Len(GetHistory(s)) : GetHistory(s)[k].id = <<r, 1>>

SawRowsOf(q, r) ==
  \E i \in 1..Len(conversation[q].messages) :
     conversation[q].messages[i].id[1] = r

\* C12: messages are ordered by creation and that order is the one
\* getHistory returns and the one replayed to the model: with n requests
\* of a session done, getHistory returns 2n messages, each user text
\* followed by its reply, a request that read the rows of another coming
\* after it; and the history a request sends when it resolves is exactly
\* what getHistory returns at that moment, roles user and model alternating.
C12_HistoryInCreationOrder ==
  /\ [](\A s \in Sessions :
          LET h == GetHistory(s) IN
          /\ Len(h) = 2 * Cardinality(DoneOn(s))
          /\ \A k \in 1..Cardinality(DoneOn(s)) : \E r \in DoneOn(s) :
               /\ h[2 * k - 1] = [id |-> <<r, 1>>, role |-> "user",
                                  text |-> userMessage[r]]
               /\ h[2 * k] = [id |-> <<r, 2>>, role |-> "ai",
                              text |-> out[r].reply]
          /\ \A r, q \in DoneOn(s) :
               SawRowsOf(q, r) => PairAt(s, r) < PairAt(s, q))
  /\ [][\A q \in Requests :
          (pc[q] \in {"find", "create"} /\ pc'[q] = "await") =>
            LET h == GetHistory(sessionId[q]) IN
            /\ Len(history'[q]) = Len(h)
            /\ \A i \in 1..Len(h) :
                 history'[q][i] =
                   [role  |-> IF i % 2 = 1 THEN "user" ELSE "model",
                    parts |-> <<[text |-> h[i].text]>>]]_vars

\* C12 witness: a request that replayed the pair of an earlier one is done
\* and getHistory returns both pairs.
C12_Witness ==
  \E q \in Requests :
    /\ pc[q] = "done"
    /\ Len(history[q]) = 2
    /\ Len(GetHistory(sessionId[q])) = 4

\* A step in which the route received a request.
Posted == Len(log') = Len(log) + 1 /\ req' # None

PostedLimited == Posted /\ log'[Len(log')].limited

WindowStartAt(i) == WindowAfter(SubSeq(log, 1, i), log[i].key).start

\* The requests of the window of the i-th request that were passed on.
PassedInWindowOf(i) ==
  { j \in 1..Len(log) :
      /\ log[j].key = log[i].key
      /\ WindowStartAt(j) = WindowStartAt(i)
      /\ ~log[j].limited }

\* C13: a request the limiter reports as limited is answered 429 with
\* errorCode RATE_LIMIT and is not passed on (no resolve, upstream call or
\* write happens in its step, its task stays idle), and of the requests of
\* one key in one window at most maxRequests are passed on.
C13_LimitedNotPassedOn ==
  /\ [][PostedLimited =>
          /\ res'[req'.r].status = 429
          /\ res'[req'.r].json.errorCode = "RATE_LIMIT"
          /\ pc'[req'.r] = "idle"
          /\ UNCHANGED chatVars]_vars
  /\ [](\A i \in 1..Len(log) :
          Cardinality(PassedInWindowOf(i)) <= config.maxRequests)

\* C13 witness: with maxRequests requests of a key admitted, a further one
\* in the same window was answered 429.
C13_Witness ==
  /\ req # None
  /\ Len(log) = config.maxRequests + 1
  /\ log[Len(log)].limited
  /\ res[req.r].status = 429
  /\ \E q \in Requests : pc[q] # "idle"

\* C14: every 429 response has errorCode RATE_LIMIT, a retryAfter field
\* and a Retry-After header, whether the middleware or the catch block of
\* the handler sent it.
C14_Every429HasRetryAfter ==
  \A r \in Requests :
    (res[r] # None /\ res[r].status = 429) =>
      /\ res[r].json.errorCode = "RATE_LIMIT"
      /\ "retryAfter" \in DOMAIN res[r].json
      /\ "Retry-After" \in DOMAIN res[r].headers

\* The kind of condition a failed request ended with, read off what
\* happened to it and not off the text of its error.
FailureKind(r) ==
  IF out[r].code = "RATE_LIMIT_EXCEEDED" THEN "RateLimitExceeded"
  ELSE IF out[r].code = "AI_SERVICE_ERROR" /\ resps[r] # <<>>
          /\ resps[r][Len(resps[r])].kind = "timeout" THEN "Timeout"
  ELSE IF out[r].code = "MODEL_NOT_FOUND" THEN "ModelNotFound"
  ELSE IF out[r].code = "AI_SERVICE_ERROR" THEN "UpstreamServiceError"
  ELSE "Other"

CodeOfKind(kind) ==
  CASE kind = "RateLimitExceeded" -> "RATE_LIMIT"
    [] kind = "Timeout" -> "TIMEOUT"
    [] kind \in {"ModelNotFound", "UpstreamServiceError"} -> "SERVICE_UNAVAILABLE"
    [] OTHER -> "UNKNOWN"

\* C15: the response to a failed request has the status and error code of
\* the kind of its failure, whatever text the failure's message carries:
\* RateLimitExceeded 429 RATE_LIMIT, Timeout 504 TIMEOUT, ModelNotFound and
\* UpstreamServiceError 503 SERVICE_UNAVAILABLE, anything else 500 UNKNOWN.
C15_CodeByKindOnly ==
  \A r \in Requests :
    (pc[r] = "failed" /\ res[r] # None /\ res[r].status # 0) =>
      /\ res[r].json.errorCode = CodeOfKind(FailureKind(r))
      /\ res[r].status = RouteStatus(CodeOfKind(FailureKind(r)))

\* A step in which the route received a request that the limiter let pass
\* and whose body has a well-formed sessionId and a string as message.
PostedPassed ==
  /\ Posted
  /\ ~log'[Len(log')].limited
  /\ IsUuid(req'.body.sessionId)
  /\ req'.body.message # None

\* C16: of the requests that are not rate-limited, one whose message has a
\* trimmed length from 1 to 2000 is accepted (processMessage starts with
\* the trimmed message), and one whose trimmed length is 0 or above 2000
\* is answered 400 VALIDATION_ERROR in a step that resolves, sends and
\* writes nothing.
C16_TrimmedLengthDecides ==
  [][PostedPassed =>
       LET m == req'.body.message
           r == req'.r
       IN IF 1 <= Length(Trim(m)) /\ Length(Trim(m)) <= MaxMessageLength
          THEN /\ pc'[r] = "find"
               /\ userMessage'[r] = Trim(m)
               /\ res'[r].status = 0
          ELSE /\ res'[r].status = 400
               /\ res'[r].json.errorCode = "VALIDATION_ERROR"
               /\ UNCHANGED chatVars]_vars

\* C16 witness: a message of 2000 characters after one leading blank was
\* accepted and a message of 2001 characters was then answered 400.
C16_Witness ==
  /\ req # None
  /\ req.body.message = [lead |-> 0, core |-> MaxMessageLength + 1]
  /\ res[req.r].status = 400
  /\ \E q \in Requests :
       /\ pc[q] # "idle"
       /\ userMessage[q] = [lead |-> 0, core |-> MaxMessageLength]

\* C17: a request that fails validation leaves the rate-limit entry of its
\* key as it was and consumes none of the key's quota.
C17_InvalidLeavesLimiter ==
  [][(Posted /\ res'[req'.r].status = 400) =>
       LET k == RateLimitKey(req'.body, req'.ip) IN
       /\ store'[k] = store[k]
       /\ RemainingOf(store'[k], now, config) = RemainingOf(store[k], now, config)]_vars

\* C18: keys are independent: a call on one key leaves the entry and the
\* remaining count of every other key as they were, and whether a call is
\* limited is decided by the earlier calls of its own key alone (its rank
\* in its key's window), whatever calls on other keys came in between.
C18_KeysIndependent ==
  /\ [][\A k \in StoreKeys :
          (Len(log') = Len(log) + 1 /\ log'[Len(log')].key = k) =>
            \A j \in StoreKeys \ {k} :
              /\ store'[j] = store[j]
              /\ RemainingOf(store'[j], now', config)
                   = RemainingOf(store[j], now, config)]_vars
  /\ [](\A i \in 1..Len(log) :
          log[i].limited <=>
            (NthInWindow(i) > 1 /\ NthInWindow(i) > config.maxRequests))

\* C18 witness: one key has just been limited while another key, called
\* once in its live window, still has all but one of its requests left.
C18_Witness ==
  \E k, j \in Keys :
    /\ k # j
    /\ LastCallOf(k)
    /\ log[Len(log)].limited
    /\ WindowOpen(store[j], now)
    /\ store[j].count = 1
    /\ config.maxRequests >= 1
    /\ GetRemaining(j, config) = config.maxRequests - 1

\* A formatted turn read back as a message.
TurnsAsMessages(h) ==
  [i \in 1..Len(h) |-> [role |-> h[i].role, text |-> h[i].parts[1].text]]

\* C19: formatHistoryForGemini maps n messages to n turns in the same
\* order, each with the message's text as its only part, role ai and role
\* model becoming model and role user staying user; formatting the result
\* again changes nothing, and the empty list maps to the empty list.
C19_FormatHistory ==
  \A r \in Requests :
    pc[r] = "formatted" =>
      LET m == conversation[r].messages
          h == history[r]
      IN /\ Len(h) = Len(m)
         /\ \A i \in 1..Len(m) :
              /\ h[i].parts = <<[text |-> m[i].text]>>
              /\ h[i].role = IF m[i].role \in {"ai", "model"}
                             THEN "model" ELSE "user"
         /\ FormatHistoryForGemini(TurnsAsMessages(h)) = h
         /\ (m = <<>> => h = <<>>)

\* C19 witness: a list holding a user, an ai and a model message has been
\* formatted.
C19_Witness ==
  \E r \in Requests :
    /\ pc[r] = "formatted"
    /\ \A role \in StoredRoles :
         \E i \in 1..Len(history[r]) : conversation[r].messages[i].role = role

\* The key's window is live: it was called, and the present time is not
\* past the first call of its last window plus windowMs.
LiveWindow(k) ==
  /\ WindowAfter(log, k) # None
  /\ now <= WindowAfter(log, k).start + config.windowMs

\* C20: getRemaining(key, config) is max(0, maxRequests - count) while the
\* key's window is live, count being the checks made in that window, and
\* maxRequests when the key was never checked or its window has expired;
\* it is never negative.
C20_RemainingClamped ==
  \A k \in Keys :
    /\ GetRemaining(k, config) >= 0
    /\ IF LiveWindow(k)
       THEN LET d == config.maxRequests - WindowAfter(log, k).n
            IN GetRemaining(k, config) = IF d > 0 THEN d ELSE 0
       ELSE GetRemaining(k, config) = config.maxRequests

\* C20 witness: a key has been checked more than maxRequests times in its
\* live window and nothing remains.
C20_Witness ==
  \E k \in Keys :
    /\ LiveWindow(k)
    /\ WindowAfter(log, k).n > config.maxRequests + 1
    /\ GetRemaining(k, config) = 0

\* The entry of key k in a limiter that replays the calls of l and never
\* sweeps.
RECURSIVE NoSweepEntry(_, _)
NoSweepEntry(l, k) ==
  IF l = <<>> THEN None
  ELSE LET prev == NoSweepEntry(SubSeq(l, 1, Len(l) - 1), k)
           e == l[Len(l)]
       IN IF e.key # k THEN prev
          ELSE IF ~WindowOpen(prev, e.t) THEN FreshEntry(e.t, config)
          ELSE [prev EXCEPT !.count = @ + 1]

\* The result of the i-th call in the limiter that never sweeps.
NoSweepLimited(i) ==
  LET prev == NoSweepEntry(SubSeq(log, 1, i - 1), log[i].key)
  IN IF ~WindowOpen(prev, log[i].t) THEN FALSE
     ELSE Exceeded(prev.count + 1, config)

\* C21: the sweep never changes a result: every isRateLimited result and
\* every getRemaining value equals the one of a limiter that replays the
\* same timed calls and never sweeps, and a sweep removes only entries
\* whose window has expired and leaves the others as they are.
C21_SweepInvisible ==
  /\ [](/\ \A i \in 1..Len(log) : log[i].limited = NoSweepLimited(i)
        /\ \A k \in Keys :
             GetRemaining(k, config)
               = RemainingOf(NoSweepEntry(log, k), now, config))
  /\ [][\A k \in StoreKeys :
          (store[k] # None /\ Len(log') = Len(log) /\ store'[k] # store[k])
            => (now > store[k].resetTime /\ store'[k] = None)]_vars

\* C21 witness: the sweep has removed the entry of a key that was called,
\* while another key's window is live.
C21_Witness ==
  \E k, j \in Keys :
    /\ store[k] = None
    /\ NoSweepEntry(log, k) # None
    /\ WindowOpen(store[j], now)

\* Some request has handled a not-found by falling back.
FellBack ==
  \E q \in Requests : \E i \in 1..Len(resps[q]) :
    /\ resps[q][i].kind = "error"
    /\ resps[q][i].status = 404
    /\ resps[q][i].cur # DefaultModel

\* The step is the fallback of some request: it handles a not-found of a
\* call made while the current model was not the default.
FallbackStep ==
  \E q \in Requests :
    /\ Len(resps'[q]) = Len(resps[q]) + 1
    /\ resps'[q][Len(resps'[q])].kind = "error"
    /\ resps'[q][Len(resps'[q])].status = 404
    /\ modelName # DefaultModel

\* C22: the current model name changes only in a fallback step and only
\* to the default model; once it is the default it stays the default; and
\* a generateReply call that starts after a fallback issues its first
\* attempt against the default model.
C22_ModelOnlyFallsBack ==
  /\ [][modelName' # modelName =>
          (modelName' = DefaultModel /\ FallbackStep)]_vars
  /\ [][modelName = DefaultModel => modelName' = DefaultModel]_vars
  /\ [][\A r \in Requests :
          (sent[r] = <<>> /\ sent'[r] # <<>> /\ FellBack)
            => sent'[r] = <<DefaultModel>>]_vars

\* C22 witness: a request started after another one's fallback and its
\* first call went to the default model.
C22_Witness ==
  \E r, q \in Requests :
    /\ r # q
    /\ Len(resps[q]) >= 1
    /\ resps[q][1].status = 404
    /\ resps[q][1].cur = CustomModel
    /\ resps[r] = <<>>
    /\ sent[r] = <<DefaultModel>>
    /\ modelName = DefaultModel

IsPrefix(p, q) == Len(p) <= Len(q) /\ SubSeq(q, 1, Len(p)) = p

\* C23: stored messages are never edited or deleted and conversations are
\* never deleted: in every step the conversation table and the message
\* sequence of every conversation are prefixes of what they become.
C23_AppendOnly ==
  [][/\ IsPrefix(conversations, conversations')
     /\ IsPrefix(messages, messages')
     /\ \A i \in 1..Len(conversations) :
          IsPrefix(MessagesOf(messages, conversations[i].id),
                   MessagesOf(messages', conversations[i].id))]_vars

\* C23 witness: a conversation has received a second pair of messages
\* after its first.
C23_Witness ==
  \E i \in 1..Len(conversations) :
    Len(MessagesOf(messages, conversations[i].id)) = 4

\* C24: a successful processMessage returns the sessionId it was given,
\* the reply stored as the model's message, the id of that stored message
\* (the second row of the transaction, which follows the user's row), the
\* generator's responseTime, and tokensUsed exactly when the upstream
\* answer carried a token count, with that count.
C24_ResultOfProcessMessage ==
  \A r \in Requests :
    pc[r] = "done" =>
      LET o == out[r]
          up == resps[r][Len(resps[r])]
      IN /\ o.sessionId = sessionId[r]
         /\ \E i \in 2..Len(messages) :
              /\ messages[i].id = o.messageId
              /\ messages[i].role = "ai"
              /\ messages[i].text = o.reply
              /\ messages[i].conversationId = conversation[r].id
              /\ messages[i - 1].role = "user"
              /\ messages[i - 1].id[1] = r
              /\ messages[i - 1].id # o.messageId
         /\ o.metadata.responseTime = genOut[r].responseTime
         /\ ("tokensUsed" \in DOMAIN o.metadata) <=> (up.usage # None)
         /\ up.usage # None =>
              o.metadata.tokensUsed = up.usage.totalTokenCount

\* C24 witness: one request succeeded on an answer without a token count
\* and another on an answer with one.
C24_Witness ==
  \E r, q \in Requests :
    /\ pc[r] = "done" /\ pc[q] = "done"
    /\ "tokensUsed" \notin DOMAIN out[r].metadata
    /\ "tokensUsed" \in DOMAIN out[q].metadata

\* C25: getHistory is read-only: for a token without a conversation it
\* returns the empty list and creates no conversation, and for every
\* token it leaves the conversations, the messages, the rate-limit table
\* and the current model as they were.
C25_GetHistoryReadOnly ==
  [][got' # got =>
       /\ UNCHANGED <<conversations, messages, store, modelName>>
       /\ (ConversationOf(got'.sessionId) = {} =>
             /\ got'.messages = <<>>
             /\ \A i \in 1..Len(conversations') :
                  conversations'[i].sessionId # got'.sessionId)
       /\ got'.messages = GetHistory(got'.sessionId)]_vars

\* C25 witness: getHistory was called for a token nobody has used while
\* another token has a conversation with messages.
C25_Witness ==
  /\ got # None
  /\ got.messages = <<>>
  /\ ConversationOf(got.sessionId) = {}
  /\ messages # <<>>

\* The request failed in its transaction: the generator had returned.
FailedInTransaction(r) ==
  pc[r] = "failed" /\ genOut[r] # None /\ genOut[r].ok

\* C26: a failure of the atomic write is not retried: no request runs its
\* transaction twice, a request that failed in it has run it once, stays
\* failed, has the store's own failure (none of the generator's
\* conditions) as its outcome, and has neither of its messages stored.
C26_WriteFailureNotRetried ==
  /\ [](\A r \in Requests :
          /\ txRuns[r] <= 1
          /\ FailedInTransaction(r) =>
               /\ txRuns[r] = 1
               /\ out[r] = Err("DB_ERROR", {})
               /\ RowsOf(r) = {}
               /\ tx[r] = <<>>)
  /\ [][\A r \in Requests :
          FailedInTransaction(r) =>
            (pc'[r] = "failed" /\ out'[r] = out[r])]_vars

\* C26 witness: a transaction failed after its first row was written
\* while another request's pair is stored.
C26_Witness ==
  \E r, q \in Requests :
    /\ FailedInTransaction(r)
    /\ pc[q] = "done"
    /\ sessionId[q] = sessionId[r]
    /\ Len(messages) = 2

\* C27: whenever generateReply fails with MODEL_NOT_FOUND, the call whose
\* not-found it handled had been issued against the default model, also
\* when another request's fallback changed the current model while that
\* call was outstanding.
C27_NotFoundMeansDefaultFailed ==
  \A r \in Requests :
    (genOut[r] # None /\ ~genOut[r].ok /\ genOut[r].code = "MODEL_NOT_FOUND") =>
      sent[r][Len(resps[r])] = DefaultModel

\* Requests r and q of one session have both generated from the same
\* stored history and both have their two rows ready to commit.
BothReadyToCommit(r, q) ==
  /\ r # q
  /\ pc[r] = "tx" /\ pc[q] = "tx"
  /\ sessionId[r] = sessionId[q]
  /\ conversation[r] = conversation[q]
  /\ Len(tx[r]) = Len(TxWrites(r))
  /\ Len(tx[q]) = Len(TxWrites(q))

\* C28: two concurrent requests of one session are not ordered: when both
\* have generated from the same stored history, either one's atomic write
\* can complete first, and the history a request generates from is the
\* one it read, whatever is committed in the meantime.
C28_SameSessionNotOrdered ==
  /\ [](\A r, q \in Requests :
          BothReadyToCommit(r, q) => (ENABLED TxCommit(r) /\ ENABLED TxCommit(q)))
  /\ [][\A r \in Requests :
          pc[r] \in {"await", "sleep", "tx"} => history'[r] = history[r]]_vars

\* C28 witness: both requests read the empty history of the session, the
\* later-numbered one committed first, and the other's reply is stored
\* right after that pair although it was generated from the empty history.
C28_Witness ==
  \E r, q \in Requests :
    /\ r < q
    /\ pc[r] = "done" /\ pc[q] = "done"
    /\ sessionId[r] = sessionId[q]
    /\ RowsOf(q) = {1, 2}
    /\ RowsOf(r) = {3, 4}
    /\ history[r] = <<>>
    /\ history[q] = <<>>

\* C29: in every state the messages of each conversation, in order, are
\* consecutive pairs: their number is even, roles alternate starting with
\* user, and each user message is directly followed by the reply of the
\* same request.
C29_StoredPairs ==
  \A c \in 1..Len(conversations) :
    LET m == MessagesOf(messages, conversations[c].id) IN
    /\ Len(m) % 2 = 0
    /\ \A i \in 1..Len(m) :
         m[i].role = IF i % 2 = 1 THEN "user" ELSE "ai"
    /\ \A i \in 1..Len(m) :
         i % 2 = 1 => /\ m[i].id[2] = 1
                      /\ m[i + 1].id = <<m[i].id[1], 2>>

\* C29 witness: two requests of one session were in their transactions at
\* the same time and both pairs are now stored in the conversation.
C29_Witness ==
  \E c \in 1..Len(conversations) :
    /\ Len(MessagesOf(messages, conversations[c].id)) = 4
    /\ \E r, q \in Requests :
         /\ r # q
         /\ pc[r] = "done" /\ pc[q] = "done"
         /\ conversation[r] = conversation[q]
         /\ history[r] = <<>> /\ history[q] = <<>>

InGenerateReply(r) == pc[r] \in {"await", "sleep"}

\* generateReply of r has returned a result or thrown.
GenerateReplySettled(r) ==
  /\ pc[r] \in {"tx", "failed"}
  /\ genOut[r] # None

\* C31: provided timers fire, every generateReply invocation eventually
\* returns a result or throws, whatever the upstream does (rate limit,
\* not found, other failure, or no answer at all).
C31_GenerateReplyTerminates ==
  \A r \in Requests : InGenerateReply(r) ~> GenerateReplySettled(r)

\* C31 witness: an invocation that slept after a rate limit and then got no
\* answer from the upstream has thrown.
C31_Witness ==
  \E r \in Requests :
    /\ GenerateReplySettled(r)
    /\ ~genOut[r].ok
    /\ Len(sleeps[r]) >= 1
    /\ resps[r][Len(resps[r])].kind = "timeout"

\* The step is an isRateLimited call for key k.
CallFor(k) ==
  /\ Len(log') = Len(log) + 1
  /\ log'[Len(log')].key = k

CallsInWindow(k) ==
  { i \in 1..Len(log) :
      /\ log[i].key = k
      /\ log[i].t >= store[k].resetTime - config.windowMs }

\* C33: the stored count of a key is the number of isRateLimited calls made
\* for it since its current window started, limited calls included, and is
\* at least 1, also while requests admitted earlier are still in flight.
C33_CountIsCallsInWindow ==
  \A k \in StoreKeys :
    store[k] # None =>
      /\ store[k].count = Cardinality(CallsInWindow(k))
      /\ store[k].count >= 1

\* C33 witness: three requests of one key were counted in one window, the
\* later ones limited, while the admitted one is still awaiting the upstream.
C33_Witness ==
  \E k \in StoreKeys :
    /\ store[k] # None
    /\ store[k].count = 3
    /\ log[Len(log)].limited
    /\ \E r \in Requests : pc[r] = "await" /\ req.r # r

\* Request r created the conversation of a token not seen before and then
\* failed in generateReply.
FailedInGenerationNew(r) ==
  /\ pc[r] = "failed"
  /\ genOut[r] # None
  /\ ~genOut[r].ok
  /\ conversation[r] # None
  /\ conversation[r].id = r

\* No other request of r's session has stored its messages.
NobodyElseStored(r) ==
  \A q \in Requests \ {r} :
    (pc[q] # "idle" /\ sessionId[q] = sessionId[r]) => pc[q] # "done"

\* C34: after a request for a never-seen session failed in reply
\* generation, the conversation it created stays in the store, alone for
\* its token and without messages of that request; a later getHistory of
\* the token returns the empty list (as long as no other request stored
\* messages), and a later resolve of the token returns that conversation
\* and creates none.
C34_EmptyConversationStays ==
  /\ [](\A r \in Requests :
          FailedInGenerationNew(r) =>
            /\ \E i \in 1..Len(conversations) :
                 /\ ConversationOf(sessionId[r]) = {i}
                 /\ conversations[i].id = r
            /\ \A j \in 1..Len(messages) : messages[j].id[1] # r
            /\ NobodyElseStored(r) => GetHistory(sessionId[r]) = <<>>)
  /\ [][\A r \in Requests :
          FailedInGenerationNew(r) =>
            /\ (got' # got /\ got'.sessionId = sessionId[r]
                  /\ NobodyElseStored(r)) => got'.messages = <<>>
            /\ \A q \in Requests \ {r} :
                 (/\ pc[q] \in {"find", "create"}
                  /\ sessionId[q] = sessionId[r]
                  /\ pc'[q] = "await")
                 => /\ conversation'[q].id = r
                    /\ conversations' = conversations]_vars

\* C34 witness: the first request of a token failed in generation, a
\* getHistory of the token returned the empty list, and a second request
\* of the token has resolved to the conversation the first one created.
C34_Witness ==
  \E r, q \in Requests :
    /\ r # q
    /\ FailedInGenerationNew(r)
    /\ got # None
    /\ got.sessionId = sessionId[r]
    /\ got.messages = <<>>
    /\ pc[q] = "await"
    /\ sessionId[q] = sessionId[r]
    /\ conversation[q].id = r
    /\ Len(conversations) = 1

\* The step is a request under key k that the middleware lets through.
Admitted(k) ==
  /\ CallFor(k)
  /\ ~log'[Len(log')].limited

\* The X-RateLimit-Remaining header of the response to the last request.
RemainingSent == res'[req'.r].headers["X-RateLimit-Remaining"]

\* C35 as stated: on every response that is not limited the header is
\* maxRequests minus the count of the key's window, this request included,
\* is not negative, and is one less than what remained before the request.
C35_HeaderIsMaxMinusCount ==
  [][\A k \in StoreKeys :
       Admitted(k) =>
         /\ RemainingSent = config.maxRequests - store'[k].count
         /\ RemainingSent >= 0
         /\ WindowOpen(store[k], now) =>
              RemainingSent = RemainingOf(store[k], now, config) - 1]_vars

\* The window in which the request was counted is still live when
\* getRemaining reads the clock.
LiveAtHeader(k) == ~(now' > store'[k].resetTime)

\* C35, amended: the header is what getRemaining returns when the
\* middleware calls it after the count: maxRequests minus the count of the
\* key's window, this request included, and one less than what remained
\* before the request, provided the window is still live at that moment;
\* when the window has expired between the count and the header, the
\* header is maxRequests. It is never negative.
C35_HeaderIsRemainingAfterCount ==
  [][\A k \in StoreKeys :
       Admitted(k) =>
         /\ RemainingSent >= 0
         /\ LiveAtHeader(k) =>
              /\ RemainingSent = config.maxRequests - store'[k].count
              /\ WindowOpen(store[k], now) =>
                   RemainingSent = RemainingOf(store[k], now, config) - 1
         /\ ~LiveAtHeader(k) => RemainingSent = config.maxRequests]_vars

\* C35 witness: the second request of a window was let through and its
\* header says that nothing remains.
C35_Witness ==
  /\ Len(log) = 2
  /\ log[1].key = log[2].key
  /\ ~log[2].limited
  /\ store[log[2].key].count = 2
  /\ ~(now > store[log[2].key].resetTime)
  /\ config.maxRequests = 2
  /\ res[req.r].headers["X-RateLimit-Remaining"] = 0

\* The step is a request under key k that the middleware answers with 429.
Limited(k) ==
  /\ CallFor(k)
  /\ log'[Len(log')].limited

\* C36: whenever the middleware answers 429 the key has a stored entry, the
\* retryAfter hint is computed from its reset time (the fallback 60 is not
\* used), and 0 <= retryAfter <= ceil(windowMs / 1000).
C36_RetryAfterFromStoredReset ==
  [][\A k \in StoreKeys :
       Limited(k) =>
         LET answer == res'[req'.r] IN
         /\ answer.status = 429
         /\ store'[k] # None
         /\ store'[k].resetTime # 0
         /\ answer.json.retryAfter = CeilDiv(store'[k].resetTime - now', MsPerSecond)
         /\ answer.headers["Retry-After"] = answer.json.retryAfter
         /\ answer.json.retryAfter >= 0
         /\ answer.json.retryAfter <= CeilDiv(config.windowMs, MsPerSecond)]_vars

\* C36 witness: the last request was answered 429 before its key's window
\* ended, with a hint of one second.
C36_Witness ==
  \E r \in Requests :
    /\ res[r] # None
    /\ res[r].status = 429
    /\ res[r].json.retryAfter = 1
    /\ req.r = r
    /\ now < store[RateLimitKey(req.body, req.ip)].resetTime

\* C37: getRemaining and getResetTime leave the rate-limit table as it is;
\* an isRateLimited call for a key whose window is live (the current time
\* is not past the stored reset time, equal to it included) adds one to
\* that key's count and changes nothing else: the reset time stays, also
\* when the call is limited.
C37_QueriesAndLiveCallsFrame ==
  [][/\ got' # got => store' = store
     /\ \A k \in Keys :
          (CallFor(k) /\ store[k] # None /\ now <= store[k].resetTime) =>
            /\ store' = [store EXCEPT ![k].count = @ + 1]
            /\ store'[k].resetTime = store[k].resetTime]_vars

\* C37 witness: a key was limited by a call at exactly its reset time, and
\* its reset time was then queried and is still that time.
C37_Witness ==
  /\ Len(log) >= 1
  /\ log[Len(log)].limited
  /\ store[log[Len(log)].key].resetTime = log[Len(log)].t
  /\ got # None
  /\ got = [key |-> log[Len(log)].key, resetTime |-> log[Len(log)].t]

\* The step counts the arriving request under key k and under no other key.
CountedUnder(k) ==
  /\ CallFor(k)
  /\ store'[k] # None
  /\ store'[k].count = IF WindowOpen(store[k], now) THEN store[k].count + 1 ELSE 1
  /\ \A j \in StoreKeys \ {k} : store'[j] = store[j]

\* C38: the middleware counts a request under its body's sessionId when it
\* has one, else under the caller's address, else under 'anonymous': the
\* requests without sessionId from one address share that address's
\* counter, and those with neither share the counter of 'anonymous'.
C38_KeyOfRequest ==
  [][Len(log') = Len(log) + 1 =>
       LET b == req'.body
           ip == req'.ip
       IN /\ b.sessionId # Absent => CountedUnder(b.sessionId)
          /\ (b.sessionId = Absent /\ ip # Absent) => CountedUnder(ip)
          /\ (b.sessionId = Absent /\ ip = Absent) => CountedUnder("anonymous")]_vars

\* C38 witness: two requests without sessionId from one address were
\* counted together, one with neither under 'anonymous', and none of them
\* under a session.
C38_Witness ==
  /\ \E i \in Ips : store[i] # None /\ store[i].count = 2
  /\ store["anonymous"] # None
  /\ store["anonymous"].count = 1
  /\ \A s \in Sessions : store[s] = None

\* The last outcome of a fetch.
LastFetched == fetched[Len(fetched)]

\* The delays slept after n failed attempts.
SleptAfter(n) == SubSeq(<<1000, 2000>>, 1, n)

====
